---- MODULE Spec2Model ----
(***************************************************************************)
(* A model of two parts of the piped agent:                                *)
(*   - pkg/app/piped/executor/registry.go : the executor registry          *)
(*   - pkg/config/piped.go                : the piped configuration        *)
(* Durations are counted in seconds instead of nanoseconds (TLC integers   *)
(* are 32 bit wide); every duration of the source is a whole number of     *)
(* seconds, so the comparisons of the source keep their meaning.           *)
(***************************************************************************)
EXTENDS Integers, Sequences, FiniteSets, TLC

(***************************************************************************)
(* Bounds of the model.                                                    *)
(***************************************************************************)
MaxStages == 2
MaxFactories == 2
MaxInputs == 2
MaxCalls == 4
MaxDurationStep == 2
MaxValidate == 2
MaxProviders == 2
MaxEnable == 2
MaxRepositories == 2
MaxGoroutines == 3
MaxCommands == 2
MaxFetches == 3

(***************************************************************************)
(* Executor registry (registry.go).                                        *)
(***************************************************************************)
\* model.Stage values (a closed enumeration of stage kinds).
Stages == 1..MaxStages
\* Factory values; NoFactory stands for "no factory involved".
Factories == 1..MaxFactories
NoFactory == 0
\* Input values; NoInput stands for "no input involved".
Inputs == 1..MaxInputs
NoInput == 0

\* The Executor a factory returns: f(in) is determined by f and in.
Apply(f, in) == <<f, in>>
\* The nil Executor.
NilExecutor == <<NoFactory, NoInput>>

\* The process-wide registry and a registry value built with an allocated map.
defaultRegistry == "defaultRegistry"
localRegistry == "localRegistry"
RegistryIds == {defaultRegistry, localRegistry}
\* DefaultRegistry() returns the pointer held in the package variable.
DefaultRegistry == defaultRegistry

\* An empty Go map value.
EmptyMap == [k \in {} |-> NoFactory]

VARIABLES
    registries,   \* registry id -> [allocated, factories]: the registry structs
    firstReg,     \* history: registry id -> (stage -> factory of the first Register that returned nil)
    call,         \* the last call on a registry and what it returned
    ncalls,       \* number of calls made so far
    decoded,      \* the last UnmarshalJSON of a {type, config} section: input, receiver, error
    spec,         \* the PipedSpec of the process
    result,       \* what the last Validate call returned
    nvalidate,    \* number of PipedSpec.Validate calls made so far
    CloudProviders,  \* PipedSpec.CloudProviders
    nenable,      \* number of EnableDefaultKubernetesCloudProvider calls made so far
    looked,       \* the last lookup in the lists of the PipedSpec and what it returned
    Repositories, \* PipedSpec.Repositories
    repoMap,      \* what the last GetRepositoryMap call returned
    gor,          \* goroutine -> the call it makes on a registry and where it is in it
    mu,           \* registry id -> state of its sync.RWMutex
    store,        \* the state of the web commands slice: ids and entities
    thunk,        \* where the fetchCommand thunk is, and the command it fetched
    dispatched,   \* the actions the last fetchCommand dispatched, in order
    nfetch        \* number of fetchCommand dispatches so far

regVars == <<registries, firstReg, call, ncalls>>
cfgVars == <<decoded, spec, result, nvalidate>>
extVars == <<CloudProviders, nenable, looked, Repositories, repoMap, gor, mu,
             store, thunk, dispatched, nfetch>>
webVars == <<store, thunk, dispatched, nfetch>>
lstVars == <<CloudProviders, nenable, looked, Repositories, repoMap>>
vars == <<registries, firstReg, call, ncalls, decoded, spec, result, nvalidate,
          CloudProviders, nenable, looked, Repositories, repoMap, gor, mu,
          store, thunk, dispatched, nfetch>>

NoCall ==
    [op |-> "none", reg |-> defaultRegistry, stage |-> 0, f |-> NoFactory,
     in |-> NoInput, err |-> "nil", exec |-> NilExecutor, invoked |-> NoFactory,
     panicked |-> FALSE]

\* var defaultRegistry = &registry{} : the factories map is nil.
\* A registry literal with factories: make(map[model.Stage]Factory) is the
\* other value of the struct a caller in the package can build.
RegistryInit ==
    /\ registries = [id \in RegistryIds |->
                        [allocated |-> (id = localRegistry), factories |-> EmptyMap]]
    /\ firstReg = [id \in RegistryIds |-> EmptyMap]
    /\ call = NoCall
    /\ ncalls = 0

\* What a Register call returned (registry.go:34-43): its error, or a panic.
RegisterReturn(id, stage, f, err, panicked) ==
    [op |-> "Register", reg |-> id, stage |-> stage, f |-> f, in |-> NoInput,
     err |-> err, exec |-> NilExecutor, invoked |-> NoFactory, panicked |-> panicked]

\* What an Executor call returned (registry.go:45-53): g is the factory it
\* invoked (NoFactory if none); the executor is g(in), or nil.
ExecutorReturn(id, stage, in, err, g) ==
    [op |-> "Executor", reg |-> id, stage |-> stage, f |-> NoFactory, in |-> in,
     err |-> err, exec |-> IF g = NoFactory THEN NilExecutor ELSE Apply(g, in),
     invoked |-> g, panicked |-> FALSE]

\* Mutant: a second Register of a bound kind returns nil (and keeps the binding).
Register_DuplicateReturnsNil(id, stage, f) ==
    LET r == registries[id] IN
    /\ ncalls < MaxCalls
    /\ ncalls' = ncalls + 1
    /\ IF stage \in DOMAIN r.factories
       THEN /\ call' = RegisterReturn(id, stage, f, "nil", FALSE)
            /\ UNCHANGED <<registries, firstReg>>
       ELSE IF ~r.allocated
       THEN /\ call' = RegisterReturn(id, stage, f, "nil", TRUE)
            /\ UNCHANGED <<registries, firstReg>>
       ELSE /\ registries' = [registries EXCEPT ![id].factories = (stage :> f) @@ @]
            /\ firstReg' = IF stage \in DOMAIN firstReg[id] THEN firstReg
                           ELSE [firstReg EXCEPT ![id] = (stage :> f) @@ @]
            /\ call' = RegisterReturn(id, stage, f, "nil", FALSE)

\* Mutant: a second Register of a bound kind fails but has replaced the factory.
Register_DuplicateOverwrites(id, stage, f) ==
    LET r == registries[id] IN
    /\ ncalls < MaxCalls
    /\ ncalls' = ncalls + 1
    /\ IF stage \in DOMAIN r.factories
       THEN /\ call' = RegisterReturn(id, stage, f, "AlreadyRegistered", FALSE)
            /\ registries' = [registries EXCEPT ![id].factories = (stage :> f) @@ @]
            /\ UNCHANGED firstReg
       ELSE IF ~r.allocated
       THEN /\ call' = RegisterReturn(id, stage, f, "nil", TRUE)
            /\ UNCHANGED <<registries, firstReg>>
       ELSE /\ registries' = [registries EXCEPT ![id].factories = (stage :> f) @@ @]
            /\ firstReg' = IF stage \in DOMAIN firstReg[id] THEN firstReg
                           ELSE [firstReg EXCEPT ![id] = (stage :> f) @@ @]
            /\ call' = RegisterReturn(id, stage, f, "nil", FALSE)

\* func (r *registry) Register(stage, f) error, under r.mu.Lock().
\* A lookup in a nil map reports !ok; an assignment to a nil map panics
\* (the deferred Unlock runs, the map is untouched).  The panic is recorded
\* as the outcome of the call; a caller that recovers can go on calling.
Register(id, stage, f) ==
    LET r == registries[id] IN
    /\ ncalls < MaxCalls
    /\ ncalls' = ncalls + 1
    /\ IF stage \in DOMAIN r.factories
       THEN /\ call' = RegisterReturn(id, stage, f, "AlreadyRegistered", FALSE)
            /\ UNCHANGED <<registries, firstReg>>
       ELSE IF ~r.allocated
       THEN /\ call' = RegisterReturn(id, stage, f, "nil", TRUE)
            /\ UNCHANGED <<registries, firstReg>>
       ELSE /\ registries' = [registries EXCEPT ![id].factories = (stage :> f) @@ @]
            /\ firstReg' = IF stage \in DOMAIN firstReg[id] THEN firstReg
                           ELSE [firstReg EXCEPT ![id] = (stage :> f) @@ @]
            /\ call' = RegisterReturn(id, stage, f, "nil", FALSE)

\* Mutant: a lookup of an unbound kind falls back to some bound factory.
Executor_FallsBack(id, stage, in) ==
    LET r == registries[id] IN
    /\ ncalls < MaxCalls
    /\ ncalls' = ncalls + 1
    /\ UNCHANGED <<registries, firstReg>>
    /\ IF stage \notin DOMAIN r.factories
       THEN IF DOMAIN r.factories = {}
            THEN call' = ExecutorReturn(id, stage, in, "UnknownStage", NoFactory)
            ELSE \E k \in DOMAIN r.factories :
                    call' = ExecutorReturn(id, stage, in, "nil", r.factories[k])
       ELSE call' = ExecutorReturn(id, stage, in, "nil", r.factories[stage])

\* Mutant: the lookup ignores the kind and takes any bound factory.
Executor_AnyKind(id, stage, in) ==
    LET r == registries[id] IN
    /\ ncalls < MaxCalls
    /\ ncalls' = ncalls + 1
    /\ UNCHANGED <<registries, firstReg>>
    /\ IF stage \notin DOMAIN r.factories
       THEN call' = ExecutorReturn(id, stage, in, "UnknownStage", NoFactory)
       ELSE \E k \in DOMAIN r.factories :
               call' = ExecutorReturn(id, stage, in, "nil", r.factories[k])

\* func (r *registry) Executor(stage, in) (Executor, error), under r.mu.RLock().
Executor(id, stage, in) ==
    LET r == registries[id] IN
    /\ ncalls < MaxCalls
    /\ ncalls' = ncalls + 1
    /\ UNCHANGED <<registries, firstReg>>
    /\ IF stage \notin DOMAIN r.factories
       THEN call' = ExecutorReturn(id, stage, in, "UnknownStage", NoFactory)
       ELSE call' = ExecutorReturn(id, stage, in, "nil", r.factories[stage])

(***************************************************************************)
(* Piped configuration (piped.go): values.                                 *)
(***************************************************************************)
\* time.Minute, in seconds.
Minute == 60
\* Duration values a configuration gives: multiples of 30s from -30s on.
Durations == {d * 30 : d \in -1..MaxDurationStep}

\* A nil pointer, and a pointer to the struct value v.
NilPtr == [nil |-> TRUE, v |-> <<>>]
Ptr(v) == [nil |-> FALSE, v |-> v]

\* model.CloudProviderType values used by PipedCloudProvider.
CloudProviderKubernetes == "KUBERNETES"
CloudProviderTerraform == "TERRAFORM"
CloudProviderCloudRun == "CLOUDRUN"
CloudProviderLambda == "LAMBDA"
\* model.AnalysisProviderType values used by PipedAnalysisProvider.
AnalysisProviderPrometheus == "PROMETHEUS"
AnalysisProviderDatadog == "DATADOG"
AnalysisProviderStackdriver == "STACKDRIVER"
\* model.ImageProviderType values used by PipedImageProvider.
ImageProviderTypeDockerhub == "DOCKERHUB"
ImageProviderTypeGCR == "GCR"
ImageProviderTypeECR == "ECR"
\* model.SealedSecretManagementType values; the comment of the Type field
\* documents SEALING_KEY, GCP_KMS and AWS_KMS as available.
SealedSecretManagementSealingKey == "SEALING_KEY"
SealedSecretManagementGCPKMS == "GCP_KMS"
SealedSecretManagementAWSKMS == "AWS_KMS"
AvailableSealedSecretTypes ==
    {SealedSecretManagementSealingKey, SealedSecretManagementGCPKMS, SealedSecretManagementAWSKMS}

\* The type-specific config pointers each struct declares (its variants).
CloudProviderVariants ==
    {CloudProviderKubernetes, CloudProviderTerraform, CloudProviderCloudRun, CloudProviderLambda}
AnalysisProviderVariants ==
    {AnalysisProviderPrometheus, AnalysisProviderDatadog, AnalysisProviderStackdriver}
ImageProviderVariants ==
    {ImageProviderTypeDockerhub, ImageProviderTypeGCR, ImageProviderTypeECR}
SealedSecretVariants ==
    {SealedSecretManagementSealingKey, SealedSecretManagementGCPKMS}

\* The JSON keys of the type-specific config structs (every value is kept as a string).
KubernetesFields == {"masterURL", "kubeConfigPath", "appStateInformer"}
TerraformFields == {"vars"}
CloudRunFields == {"project", "region", "credentialsFile"}
LambdaFields == {"region"}
PrometheusFields == {"address", "usernameFile", "passwordFile"}
DatadogFields == {"address", "apiKeyFile", "applicationKeyFile"}
StackdriverFields == {"serviceAccountFile"}
DockerhubFields == {"username", "passwordFile"}
GCRFields == {"domain"}
ECRFields == {}
SealingKeyFields == {"privateKeyFile", "publicKeyFile"}
GCPKMSFields == {"keyName", "decryptServiceAccountFile", "encryptServiceAccountFile"}

\* The zero value of a struct with the given string fields.
ZeroStruct(fields) == [k \in fields |-> ""]
\* A JSON object that sets every given key.
FullObject(fields) == [k \in fields |-> "v"]

(***************************************************************************)
(* JSON inputs.  A document is malformed (json.Unmarshal into the generic  *)
(* struct fails) or an object with some of the keys name, type,            *)
(* pullInterval and config.  The config value is null, a value of the      *)
(* wrong JSON type, or an object; pullInterval is the duration it denotes. *)
(***************************************************************************)
NoConfig == [kind |-> "absent", obj |-> <<>>]
ConfigValues(objs) ==
    {[kind |-> "null", obj |-> <<>>], [kind |-> "illtyped", obj |-> <<>>]}
        \cup {[kind |-> "object", obj |-> o] : o \in objs}

MalformedJSON ==
    [malformed |-> TRUE, keys |-> {}, name |-> "", type |-> "", pullInterval |-> 0,
     config |-> NoConfig]

\* The documents with a value for exactly the keys they carry.
Documents(names, types, pulls, objs) ==
    {MalformedJSON} \cup
    {[malformed |-> FALSE,
      keys |-> ({"name"} \cap nk) \cup ({"type"} \cap tk) \cup ({"pullInterval"} \cap pk)
                 \cup ({"config"} \cap ck),
      name |-> n, type |-> t, pullInterval |-> d, config |-> c] :
        <<nk, n>> \in ({{}} \X {""}) \cup ({{"name"}} \X names),
        <<tk, t>> \in ({{}} \X {""}) \cup ({{"type"}} \X types),
        <<pk, d>> \in ({{}} \X {0}) \cup ({{"pullInterval"}} \X pulls),
        <<ck, c>> \in ({{}} \X {NoConfig}) \cup ({{"config"}} \X ConfigValues(objs))}

\* Every object over a subset of the given keys with values "" or "v".
ObjectsOver(fields) == UNION {[ks -> {"", "v"}] : ks \in SUBSET fields}

CloudProviderDocuments ==
    Documents({"kubernetes-default"},
              CloudProviderVariants \cup {"", "UNKNOWN"}, {},
              {<<>>} \cup {FullObject(f) : f \in {KubernetesFields, TerraformFields,
                                                  CloudRunFields, LambdaFields}})
AnalysisProviderDocuments ==
    Documents({"prometheus-dev"},
              AnalysisProviderVariants \cup {"", "UNKNOWN"}, {},
              {<<>>} \cup {FullObject(f) : f \in {PrometheusFields, DatadogFields,
                                                  StackdriverFields}})
ImageProviderDocuments ==
    Documents({"my-registry"},
              ImageProviderVariants \cup {"", "UNKNOWN"}, Durations \cup {5 * Minute},
              {<<>>} \cup {FullObject(f) : f \in {DockerhubFields, GCRFields}})
SealedSecretDocuments ==
    Documents({}, AvailableSealedSecretTypes \cup {"", "UNKNOWN"}, {},
              ObjectsOver(SealingKeyFields) \cup ObjectsOver(GCPKMSFields))

\* json.Unmarshal(data, &gp) into a generic{Name, Type, PullInterval, Config}
\* struct: an absent key leaves the zero value, a nil RawMessage included.
GenericUnmarshal(data) ==
    IF data.malformed
    THEN [err |-> "json", Name |-> "", Type |-> "", PullInterval |-> 0, Config |-> NoConfig]
    ELSE [err |-> "nil",
          Name |-> IF "name" \in data.keys THEN data.name ELSE "",
          Type |-> IF "type" \in data.keys THEN data.type ELSE "",
          PullInterval |-> IF "pullInterval" \in data.keys THEN data.pullInterval ELSE 0,
          Config |-> IF "config" \in data.keys THEN data.config ELSE NoConfig]

\* One case of the type switch: p.XConfig = &XConfig{}, then
\* if len(gp.Config) > 0 { err = json.Unmarshal(gp.Config, p.XConfig) }.
\* null leaves the struct as it is; a value of the wrong type is an error.
UnmarshalVariant(config, fields) ==
    CASE config.kind = "absent" -> [v |-> ZeroStruct(fields), err |-> "nil"]
      [] config.kind = "null" -> [v |-> ZeroStruct(fields), err |-> "nil"]
      [] config.kind = "illtyped" -> [v |-> ZeroStruct(fields), err |-> "json"]
      [] OTHER -> [v |-> [k \in fields |->
                            IF k \in DOMAIN config.obj THEN config.obj[k] ELSE ""],
                   err |-> "nil"]

\* The zero values of the four structs.
ZeroPipedCloudProvider ==
    [Name |-> "", Type |-> "", KubernetesConfig |-> NilPtr, TerraformConfig |-> NilPtr,
     CloudRunConfig |-> NilPtr, LambdaConfig |-> NilPtr]
ZeroPipedAnalysisProvider ==
    [Name |-> "", Type |-> "", PrometheusConfig |-> NilPtr, DatadogConfig |-> NilPtr,
     StackdriverConfig |-> NilPtr]
ZeroPipedImageProvider ==
    [Name |-> "", Type |-> "", PullInterval |-> 0, DockerhubConfig |-> NilPtr,
     GCRConfig |-> NilPtr, ECRConfig |-> NilPtr]
ZeroSealedSecretManagement ==
    [Type |-> "", SealingKeyConfig |-> NilPtr, GCPKMSConfig |-> NilPtr]

\* Mutant: the LAMBDA case allocates the Cloud Run config.
PipedCloudProvider_UnmarshalJSON_LambdaSetsCloudRun(data) ==
    LET gp == GenericUnmarshal(data)
        p == [ZeroPipedCloudProvider EXCEPT !.Name = gp.Name, !.Type = gp.Type]
    IN  IF gp.err # "nil" THEN [p |-> ZeroPipedCloudProvider, err |-> gp.err]
        ELSE CASE p.Type = CloudProviderKubernetes ->
                    LET r == UnmarshalVariant(gp.Config, KubernetesFields)
                    IN  [p |-> [p EXCEPT !.KubernetesConfig = Ptr(r.v)], err |-> r.err]
               [] p.Type = CloudProviderTerraform ->
                    LET r == UnmarshalVariant(gp.Config, TerraformFields)
                    IN  [p |-> [p EXCEPT !.TerraformConfig = Ptr(r.v)], err |-> r.err]
               [] p.Type = CloudProviderCloudRun ->
                    LET r == UnmarshalVariant(gp.Config, CloudRunFields)
                    IN  [p |-> [p EXCEPT !.CloudRunConfig = Ptr(r.v)], err |-> r.err]
               [] p.Type = CloudProviderLambda ->
                    LET r == UnmarshalVariant(gp.Config, LambdaFields)
                    IN  [p |-> [p EXCEPT !.CloudRunConfig = Ptr(r.v)], err |-> r.err]
               [] OTHER -> [p |-> p, err |-> "unsupported cloud provider type"]

\* func (p *PipedCloudProvider) UnmarshalJSON(data) error, p zero-valued.
PipedCloudProvider_UnmarshalJSON(data) ==
    LET gp == GenericUnmarshal(data)
        p == [ZeroPipedCloudProvider EXCEPT !.Name = gp.Name, !.Type = gp.Type]
    IN  IF gp.err # "nil" THEN [p |-> ZeroPipedCloudProvider, err |-> gp.err]
        ELSE CASE p.Type = CloudProviderKubernetes ->
                    LET r == UnmarshalVariant(gp.Config, KubernetesFields)
                    IN  [p |-> [p EXCEPT !.KubernetesConfig = Ptr(r.v)], err |-> r.err]
               [] p.Type = CloudProviderTerraform ->
                    LET r == UnmarshalVariant(gp.Config, TerraformFields)
                    IN  [p |-> [p EXCEPT !.TerraformConfig = Ptr(r.v)], err |-> r.err]
               [] p.Type = CloudProviderCloudRun ->
                    LET r == UnmarshalVariant(gp.Config, CloudRunFields)
                    IN  [p |-> [p EXCEPT !.CloudRunConfig = Ptr(r.v)], err |-> r.err]
               [] p.Type = CloudProviderLambda ->
                    LET r == UnmarshalVariant(gp.Config, LambdaFields)
                    IN  [p |-> [p EXCEPT !.LambdaConfig = Ptr(r.v)], err |-> r.err]
               [] OTHER -> [p |-> p, err |-> "unsupported cloud provider type"]

\* Mutant: the default case of the analysis provider's switch reports no error.
PipedAnalysisProvider_UnmarshalJSON_NoDefaultError(data) ==
    LET gp == GenericUnmarshal(data)
        p == [ZeroPipedAnalysisProvider EXCEPT !.Name = gp.Name, !.Type = gp.Type]
    IN  IF gp.err # "nil" THEN [p |-> ZeroPipedAnalysisProvider, err |-> gp.err]
        ELSE CASE p.Type = AnalysisProviderPrometheus ->
                    LET r == UnmarshalVariant(gp.Config, PrometheusFields)
                    IN  [p |-> [p EXCEPT !.PrometheusConfig = Ptr(r.v)], err |-> r.err]
               [] p.Type = AnalysisProviderDatadog ->
                    LET r == UnmarshalVariant(gp.Config, DatadogFields)
                    IN  [p |-> [p EXCEPT !.DatadogConfig = Ptr(r.v)], err |-> r.err]
               [] p.Type = AnalysisProviderStackdriver ->
                    LET r == UnmarshalVariant(gp.Config, StackdriverFields)
                    IN  [p |-> [p EXCEPT !.StackdriverConfig = Ptr(r.v)], err |-> r.err]
               [] OTHER -> [p |-> p, err |-> "nil"]

\* func (p *PipedAnalysisProvider) UnmarshalJSON(data) error, p zero-valued.
PipedAnalysisProvider_UnmarshalJSON(data) ==
    LET gp == GenericUnmarshal(data)
        p == [ZeroPipedAnalysisProvider EXCEPT !.Name = gp.Name, !.Type = gp.Type]
    IN  IF gp.err # "nil" THEN [p |-> ZeroPipedAnalysisProvider, err |-> gp.err]
        ELSE CASE p.Type = AnalysisProviderPrometheus ->
                    LET r == UnmarshalVariant(gp.Config, PrometheusFields)
                    IN  [p |-> [p EXCEPT !.PrometheusConfig = Ptr(r.v)], err |-> r.err]
               [] p.Type = AnalysisProviderDatadog ->
                    LET r == UnmarshalVariant(gp.Config, DatadogFields)
                    IN  [p |-> [p EXCEPT !.DatadogConfig = Ptr(r.v)], err |-> r.err]
               [] p.Type = AnalysisProviderStackdriver ->
                    LET r == UnmarshalVariant(gp.Config, StackdriverFields)
                    IN  [p |-> [p EXCEPT !.StackdriverConfig = Ptr(r.v)], err |-> r.err]
               [] OTHER -> [p |-> p, err |-> "unsupported analysis provider type"]

\* Mutant: the default pull interval is one minute.
PipedImageProvider_UnmarshalJSON_DefaultOneMinute(data) ==
    LET gp == GenericUnmarshal(data)
        p == [ZeroPipedImageProvider EXCEPT
                !.Name = gp.Name, !.Type = gp.Type,
                !.PullInterval = IF gp.PullInterval = 0 THEN Minute ELSE gp.PullInterval]
    IN  IF gp.err # "nil" THEN [p |-> ZeroPipedImageProvider, err |-> gp.err]
        ELSE CASE p.Type = ImageProviderTypeDockerhub ->
                    LET r == UnmarshalVariant(gp.Config, DockerhubFields)
                    IN  [p |-> [p EXCEPT !.DockerhubConfig = Ptr(r.v)], err |-> r.err]
               [] p.Type = ImageProviderTypeGCR ->
                    LET r == UnmarshalVariant(gp.Config, GCRFields)
                    IN  [p |-> [p EXCEPT !.GCRConfig = Ptr(r.v)], err |-> r.err]
               [] p.Type = ImageProviderTypeECR ->
                    LET r == UnmarshalVariant(gp.Config, ECRFields)
                    IN  [p |-> [p EXCEPT !.ECRConfig = Ptr(r.v)], err |-> r.err]
               [] OTHER -> [p |-> p, err |-> "unsupported image provider type"]

\* func (p *PipedImageProvider) UnmarshalJSON(data) error, p zero-valued.
PipedImageProvider_UnmarshalJSON(data) ==
    LET gp == GenericUnmarshal(data)
        p == [ZeroPipedImageProvider EXCEPT
                !.Name = gp.Name, !.Type = gp.Type,
                !.PullInterval = IF gp.PullInterval = 0 THEN 5 * Minute ELSE gp.PullInterval]
    IN  IF gp.err # "nil" THEN [p |-> ZeroPipedImageProvider, err |-> gp.err]
        ELSE CASE p.Type = ImageProviderTypeDockerhub ->
                    LET r == UnmarshalVariant(gp.Config, DockerhubFields)
                    IN  [p |-> [p EXCEPT !.DockerhubConfig = Ptr(r.v)], err |-> r.err]
               [] p.Type = ImageProviderTypeGCR ->
                    LET r == UnmarshalVariant(gp.Config, GCRFields)
                    IN  [p |-> [p EXCEPT !.GCRConfig = Ptr(r.v)], err |-> r.err]
               [] p.Type = ImageProviderTypeECR ->
                    LET r == UnmarshalVariant(gp.Config, ECRFields)
                    IN  [p |-> [p EXCEPT !.ECRConfig = Ptr(r.v)], err |-> r.err]
               [] OTHER -> [p |-> p, err |-> "unsupported image provider type"]

\* func (p *SealedSecretManagement) UnmarshalJSON(data) error, p zero-valued.
SealedSecretManagement_UnmarshalJSON(data) ==
    LET g == GenericUnmarshal(data)
        p == [ZeroSealedSecretManagement EXCEPT !.Type = g.Type]
    IN  IF g.err # "nil" THEN [p |-> ZeroSealedSecretManagement, err |-> g.err]
        ELSE CASE p.Type = SealedSecretManagementSealingKey ->
                    LET r == UnmarshalVariant(g.Config, SealingKeyFields)
                    IN  [p |-> [p EXCEPT !.SealingKeyConfig = Ptr(r.v)], err |-> r.err]
               [] p.Type = SealedSecretManagementGCPKMS ->
                    LET r == UnmarshalVariant(g.Config, GCPKMSFields)
                    IN  [p |-> [p EXCEPT !.GCPKMSConfig = Ptr(r.v)], err |-> r.err]
               [] OTHER -> [p |-> p, err |-> "unsupported sealed secret management type"]

(***************************************************************************)
(* Piped configuration (piped.go): validation.                             *)
(***************************************************************************)
\* func (m *SealedSecretManagementSealingKey) Validate() error; a nil
\* receiver panics at the first field read.
SealedSecretManagementSealingKey_Validate(m) ==
    IF m.nil THEN [err |-> "nil", panicked |-> TRUE]
    ELSE IF m.v["privateKeyFile"] = ""
    THEN [err |-> "privateKeyFile must be set", panicked |-> FALSE]
    ELSE IF m.v["publicKeyFile"] = ""
    THEN [err |-> "publicKeyFile must be set", panicked |-> FALSE]
    ELSE [err |-> "nil", panicked |-> FALSE]

\* func (m *SealedSecretManagementGCPKMS) Validate() error; a nil receiver
\* panics at the first field read.
SealedSecretManagementGCPKMS_Validate(m) ==
    IF m.nil THEN [err |-> "nil", panicked |-> TRUE]
    ELSE IF m.v["keyName"] = ""
    THEN [err |-> "keyName must be set", panicked |-> FALSE]
    ELSE IF m.v["decryptServiceAccountFile"] = ""
    THEN [err |-> "decryptServiceAccountFile must be set", panicked |-> FALSE]
    ELSE IF m.v["encryptServiceAccountFile"] = ""
    THEN [err |-> "encryptServiceAccountFile must be set", panicked |-> FALSE]
    ELSE [err |-> "nil", panicked |-> FALSE]

\* func (m *SealedSecretManagement) Validate() error.
SealedSecretManagement_Validate(m) ==
    CASE m.Type = SealedSecretManagementSealingKey ->
            SealedSecretManagementSealingKey_Validate(m.SealingKeyConfig)
      [] m.Type = SealedSecretManagementGCPKMS ->
            SealedSecretManagementGCPKMS_Validate(m.GCPKMSConfig)
      [] OTHER -> [err |-> "unsupported sealed secret management type", panicked |-> FALSE]

\* Mutant: Validate does not look at WebAddress.
PipedSpec_Validate_SkipsWebAddress(s) ==
    IF s.ProjectID = "" THEN [s |-> s, err |-> "projectID must be set", panicked |-> FALSE]
    ELSE IF s.PipedID = "" THEN [s |-> s, err |-> "pipedID must be set", panicked |-> FALSE]
    ELSE IF s.PipedKeyFile = ""
    THEN [s |-> s, err |-> "pipedKeyFile must be set", panicked |-> FALSE]
    ELSE IF s.APIAddress = "" THEN [s |-> s, err |-> "apiAddress must be set", panicked |-> FALSE]
    ELSE LET t == IF s.SyncInterval < 0 THEN [s EXCEPT !.SyncInterval = Minute] ELSE s
         IN  IF ~t.SealedSecretManagement.nil
             THEN LET r == SealedSecretManagement_Validate(t.SealedSecretManagement.v)
                  IN  [s |-> t, err |-> r.err, panicked |-> r.panicked]
             ELSE [s |-> t, err |-> "nil", panicked |-> FALSE]

\* func (s *PipedSpec) Validate() error: the spec it leaves and what it returns.
PipedSpec_Validate(s) ==
    IF s.ProjectID = "" THEN [s |-> s, err |-> "projectID must be set", panicked |-> FALSE]
    ELSE IF s.PipedID = "" THEN [s |-> s, err |-> "pipedID must be set", panicked |-> FALSE]
    ELSE IF s.PipedKeyFile = ""
    THEN [s |-> s, err |-> "pipedKeyFile must be set", panicked |-> FALSE]
    ELSE IF s.APIAddress = "" THEN [s |-> s, err |-> "apiAddress must be set", panicked |-> FALSE]
    ELSE IF s.WebAddress = "" THEN [s |-> s, err |-> "webAddress must be set", panicked |-> FALSE]
    ELSE LET t == IF s.SyncInterval < 0 THEN [s EXCEPT !.SyncInterval = Minute] ELSE s
         IN  IF ~t.SealedSecretManagement.nil
             THEN LET r == SealedSecretManagement_Validate(t.SealedSecretManagement.v)
                  IN  [s |-> t, err |-> r.err, panicked |-> r.panicked]
             ELSE [s |-> t, err |-> "nil", panicked |-> FALSE]

(***************************************************************************)
(* State machines.                                                         *)
(***************************************************************************)
NoDecoded == [section |-> "none", data |-> MalformedJSON, p |-> <<>>, err |-> "nil"]
NoResult == [op |-> "none", err |-> "nil", panicked |-> FALSE]

\* The zero PipedSpec (the fields Validate reads or writes).
ZeroPipedSpec ==
    [ProjectID |-> "", PipedID |-> "", PipedKeyFile |-> "", APIAddress |-> "",
     WebAddress |-> "", SyncInterval |-> 0, SealedSecretManagement |-> NilPtr]

\* The SealedSecretManagement values a decoded configuration can hold: nil
\* (no section) or what UnmarshalJSON left when it returned nil.
LoadedSealedSecretManagements ==
    {NilPtr} \cup
    {Ptr(SealedSecretManagement_UnmarshalJSON(d).p) :
        d \in {x \in SealedSecretDocuments : SealedSecretManagement_UnmarshalJSON(x).err = "nil"}}

\* The PipedSpec values a decoded configuration can hold.
LoadedPipedSpecs ==
    [ProjectID : {"", "project"}, PipedID : {"", "piped"}, PipedKeyFile : {"", "/etc/key"},
     APIAddress : {"", "api:443"}, WebAddress : {"", "https://web"},
     SyncInterval : Durations, SealedSecretManagement : LoadedSealedSecretManagements]

ConfigIdle ==
    /\ decoded = NoDecoded
    /\ spec = ZeroPipedSpec
    /\ result = NoResult
    /\ nvalidate = 0

\* The state before any lookup in the lists of the PipedSpec.
\* A command as the web API returns it.
NoCommand == [id |-> 0, type |-> "", status |-> "", deploymentId |-> ""]

\* The web store before any fetchCommand: the initial state of the commands
\* slice, { entities: {}, ids: [] }.
WebIdle ==
    /\ store = [ids |-> <<>>, entities |-> <<>>]
    /\ thunk = [pc |-> "idle", cmd |-> NoCommand]
    /\ dispatched = <<>>
    /\ nfetch = 0

\* No goroutine calls the registries concurrently; the mutexes are free.
ConcIdle ==
    /\ gor = <<>>
    /\ mu = [id \in RegistryIds |-> [writer |-> 0, readers |-> {}]]

\* The zero PipedRepository.
ZeroPipedRepository == [RepoID |-> "", Remote |-> "", Branch |-> ""]

NoLooked ==
    [op |-> "none", key |-> "", type |-> "", found |-> FALSE, repo |-> ZeroPipedRepository]
NoRepoMap == [called |-> FALSE, m |-> <<>>]

\* The lists of a PipedSpec that no operation of the specification touches.
ExtIdle ==
    /\ CloudProviders = <<>>
    /\ nenable = 0
    /\ looked = NoLooked
    /\ Repositories = <<>>
    /\ repoMap = NoRepoMap
    /\ ConcIdle
    /\ WebIdle

\* The registry of a starting process; no configuration is looked at.
Init == RegistryInit /\ ConfigIdle /\ ExtIdle

Next ==
    \/ /\ \E id \in RegistryIds, stage \in Stages, f \in Factories : Register(id, stage, f)
       /\ UNCHANGED <<cfgVars, extVars>>
    \/ /\ \E id \in RegistryIds, stage \in Stages, in \in Inputs : Executor(id, stage, in)
       /\ UNCHANGED <<cfgVars, extVars>>

Spec == Init /\ [][Next]_vars

\* encoding/json calls UnmarshalJSON on a zero-valued element of each section.
UnmarshalCloudProvider(data) ==
    LET r == PipedCloudProvider_UnmarshalJSON(data) IN
    /\ decoded' = [section |-> "cloudProvider", data |-> data, p |-> r.p, err |-> r.err]
    /\ result' = NoResult
    /\ UNCHANGED <<spec, nvalidate>>

UnmarshalAnalysisProvider(data) ==
    LET r == PipedAnalysisProvider_UnmarshalJSON(data) IN
    /\ decoded' = [section |-> "analysisProvider", data |-> data, p |-> r.p, err |-> r.err]
    /\ result' = NoResult
    /\ UNCHANGED <<spec, nvalidate>>

UnmarshalImageProvider(data) ==
    LET r == PipedImageProvider_UnmarshalJSON(data) IN
    /\ decoded' = [section |-> "imageProvider", data |-> data, p |-> r.p, err |-> r.err]
    /\ result' = NoResult
    /\ UNCHANGED <<spec, nvalidate>>

UnmarshalSealedSecretManagement(data) ==
    LET r == SealedSecretManagement_UnmarshalJSON(data) IN
    /\ decoded' = [section |-> "sealedSecretManagement", data |-> data, p |-> r.p,
                   err |-> r.err]
    /\ result' = NoResult
    /\ UNCHANGED <<spec, nvalidate>>

\* SealedSecretManagement.Validate on the section that was decoded without error.
ValidateSealedSecretManagement ==
    /\ decoded.section = "sealedSecretManagement"
    /\ decoded.err = "nil"
    /\ result.op = "none"
    /\ LET r == SealedSecretManagement_Validate(decoded.p)
       IN  result' = [op |-> "SealedSecretManagement.Validate", err |-> r.err,
                      panicked |-> r.panicked]
    /\ UNCHANGED <<decoded, spec, nvalidate>>

UnmarshalInit == RegistryInit /\ ConfigIdle /\ ExtIdle /\ ExtIdle

UnmarshalNext ==
    \/ /\ \E data \in CloudProviderDocuments : UnmarshalCloudProvider(data)
       /\ UNCHANGED <<regVars, extVars>>
    \/ /\ \E data \in AnalysisProviderDocuments : UnmarshalAnalysisProvider(data)
       /\ UNCHANGED <<regVars, extVars>>
    \/ /\ \E data \in ImageProviderDocuments : UnmarshalImageProvider(data)
       /\ UNCHANGED <<regVars, extVars>>
    \/ /\ \E data \in SealedSecretDocuments : UnmarshalSealedSecretManagement(data)
       /\ UNCHANGED <<regVars, extVars>>
    \/ /\ ValidateSealedSecretManagement
       /\ UNCHANGED <<regVars, extVars>>

UnmarshalSpec == UnmarshalInit /\ [][UnmarshalNext]_vars

\* PipedSpec.Validate on the decoded configuration.
Validate ==
    /\ nvalidate < MaxValidate
    /\ nvalidate' = nvalidate + 1
    /\ LET r == PipedSpec_Validate(spec)
       IN  /\ spec' = r.s
           /\ result' = [op |-> "PipedSpec.Validate", err |-> r.err, panicked |-> r.panicked]
    /\ UNCHANGED decoded

ValidateInit ==
    /\ RegistryInit
    /\ ExtIdle
    /\ decoded = NoDecoded
    /\ spec \in LoadedPipedSpecs
    /\ result = NoResult
    /\ nvalidate = 0

ValidateNext == Validate /\ UNCHANGED <<regVars, extVars>>

ValidateSpec == ValidateInit /\ [][ValidateNext]_vars

(***************************************************************************)
(* Piped configuration (piped.go): the list of cloud providers.            *)
(***************************************************************************)
\* var DefaultKubernetesCloudProvider = PipedCloudProvider{...}.
DefaultKubernetesCloudProvider ==
    [ZeroPipedCloudProvider EXCEPT
        !.Name = "kubernetes-default",
        !.Type = CloudProviderKubernetes,
        !.KubernetesConfig = Ptr(ZeroStruct(KubernetesFields))]

\* Mutant: the default provider is appended without looking at the list.
PipedSpec_EnableDefaultKubernetesCloudProvider_AlwaysAppends(cps) ==
    Append(cps, DefaultKubernetesCloudProvider)

\* func (s *PipedSpec) EnableDefaultKubernetesCloudProvider(): the list it leaves.
PipedSpec_EnableDefaultKubernetesCloudProvider(cps) ==
    IF \E i \in 1..Len(cps) : cps[i].Name = DefaultKubernetesCloudProvider.Name
    THEN cps
    ELSE Append(cps, DefaultKubernetesCloudProvider)

\* func (s *PipedSpec) HasCloudProvider(name, t) bool.
PipedSpec_HasCloudProvider(cps, name, t) ==
    \E i \in 1..Len(cps) : cps[i].Name = name /\ cps[i].Type = t

\* The PipedCloudProvider values a decoded configuration can hold: what
\* UnmarshalJSON left when it returned nil.
LoadedCloudProviders ==
    {PipedCloudProvider_UnmarshalJSON(d).p :
        d \in {x \in CloudProviderDocuments : PipedCloudProvider_UnmarshalJSON(x).err = "nil"}}

EnableDefaultKubernetesCloudProvider ==
    /\ nenable < MaxEnable
    /\ nenable' = nenable + 1
    /\ CloudProviders' = PipedSpec_EnableDefaultKubernetesCloudProvider(CloudProviders)
    /\ UNCHANGED <<looked, Repositories, repoMap>>

HasCloudProvider(name, t) ==
    /\ looked' = [op |-> "HasCloudProvider", key |-> name, type |-> t,
                  found |-> PipedSpec_HasCloudProvider(CloudProviders, name, t),
                  repo |-> ZeroPipedRepository]
    /\ UNCHANGED <<CloudProviders, nenable, Repositories, repoMap>>

ProvidersInit ==
    /\ RegistryInit
    /\ ConfigIdle
    /\ CloudProviders \in UNION {[1..n -> LoadedCloudProviders] : n \in 0..MaxProviders}
    /\ nenable = 0
    /\ looked = NoLooked
    /\ Repositories = <<>>
    /\ repoMap = NoRepoMap
    /\ ConcIdle
    /\ WebIdle

ProvidersNext ==
    \/ /\ EnableDefaultKubernetesCloudProvider
       /\ UNCHANGED <<regVars, cfgVars, gor, mu, webVars>>
    \/ /\ \E name \in {"", "kubernetes-default"}, t \in CloudProviderVariants :
             HasCloudProvider(name, t)
       /\ UNCHANGED <<regVars, cfgVars, gor, mu, webVars>>

ProvidersSpec == ProvidersInit /\ [][ProvidersNext]_vars

(***************************************************************************)
(* Piped configuration (piped.go): the list of repositories.               *)
(***************************************************************************)
\* The PipedRepository values a configuration gives.
LoadedRepositories ==
    [RepoID : {"repo-1", "repo-2"}, Remote : {"git@host:a.git", "git@host:b.git"},
     Branch : {"master"}]

\* The map GetRepositoryMap has built after the first n repositories:
\* m[repo.RepoID] = repo, a later repository replacing an earlier one.
RECURSIVE RepositoryMapUpTo(_, _)
RepositoryMapUpTo(repos, n) ==
    IF n = 0 THEN <<>>
    ELSE (repos[n].RepoID :> repos[n]) @@ RepositoryMapUpTo(repos, n - 1)

\* Mutant: the map is keyed by the remote of the repository.
PipedSpec_GetRepositoryMap_KeyedByRemote(repos) ==
    [k \in {repos[i].Remote : i \in 1..Len(repos)} |->
        repos[CHOOSE i \in 1..Len(repos) : repos[i].Remote = k]]

\* func (s *PipedSpec) GetRepositoryMap() map[string]PipedRepository.
PipedSpec_GetRepositoryMap(repos) == RepositoryMapUpTo(repos, Len(repos))

\* func (s *PipedSpec) GetRepository(id) (PipedRepository, bool): the first
\* repository of the list with that id.
PipedSpec_GetRepository(repos, id) ==
    IF \E i \in 1..Len(repos) : repos[i].RepoID = id
    THEN [repo |-> repos[CHOOSE i \in 1..Len(repos) :
                            /\ repos[i].RepoID = id
                            /\ \A j \in 1..(i - 1) : repos[j].RepoID # id],
          found |-> TRUE]
    ELSE [repo |-> ZeroPipedRepository, found |-> FALSE]

GetRepository(id) ==
    LET r == PipedSpec_GetRepository(Repositories, id) IN
    /\ looked' = [op |-> "GetRepository", key |-> id, type |-> "", found |-> r.found,
                  repo |-> r.repo]
    /\ UNCHANGED <<CloudProviders, nenable, Repositories, repoMap>>

GetRepositoryMap ==
    /\ repoMap' = [called |-> TRUE, m |-> PipedSpec_GetRepositoryMap(Repositories)]
    /\ UNCHANGED <<CloudProviders, nenable, Repositories, looked>>

RepositoriesInit ==
    /\ RegistryInit
    /\ ConfigIdle
    /\ CloudProviders = <<>>
    /\ nenable = 0
    /\ looked = NoLooked
    /\ Repositories \in UNION {[1..n -> LoadedRepositories] : n \in 0..MaxRepositories}
    /\ repoMap = NoRepoMap
    /\ ConcIdle
    /\ WebIdle

RepositoriesNext ==
    \/ /\ \E id \in {"repo-1", "repo-2", "repo-3"} : GetRepository(id)
       /\ UNCHANGED <<regVars, cfgVars, gor, mu, webVars>>
    \/ /\ GetRepositoryMap
       /\ UNCHANGED <<regVars, cfgVars, gor, mu, webVars>>

RepositoriesSpec == RepositoriesInit /\ [][RepositoriesNext]_vars

(***************************************************************************)
(* Executor registry (registry.go): concurrent callers.  Every goroutine   *)
(* makes one call; the steps of a call are the acquisition of r.mu, the    *)
(* map lookup, the map store or the factory call, and the deferred release.*)
(***************************************************************************)
Goroutines == 1..MaxGoroutines

\* The calls a goroutine can make, about to acquire the mutex.
RegisterCalls ==
    [pc : {"lock"}, op : {"Register"}, reg : RegistryIds, stage : Stages, f : Factories,
     in : {NoInput}, err : {"nil"}, exec : {NilExecutor}, panicked : {FALSE}]
ExecutorCalls ==
    [pc : {"lock"}, op : {"Executor"}, reg : RegistryIds, stage : Stages, f : {NoFactory},
     in : Inputs, err : {"nil"}, exec : {NilExecutor}, panicked : {FALSE}]

\* r.mu.Lock(): waits until no goroutine holds the mutex.
Lock(g) ==
    /\ gor[g].op = "Register" /\ gor[g].pc = "lock"
    /\ mu[gor[g].reg].writer = 0 /\ mu[gor[g].reg].readers = {}
    /\ mu' = [mu EXCEPT ![gor[g].reg].writer = g]
    /\ gor' = [gor EXCEPT ![g].pc = "lookup"]
    /\ UNCHANGED registries

\* if _, ok := r.factories[stage]; ok { return fmt.Errorf(...) }
RegisterLookup(g) ==
    /\ gor[g].op = "Register" /\ gor[g].pc = "lookup"
    /\ IF gor[g].stage \in DOMAIN registries[gor[g].reg].factories
       THEN gor' = [gor EXCEPT ![g].err = "AlreadyRegistered", ![g].pc = "unlock"]
       ELSE gor' = [gor EXCEPT ![g].pc = "store"]
    /\ UNCHANGED <<registries, mu>>

\* r.factories[stage] = f; return nil.  The store panics on a nil map.
RegisterStore(g) ==
    /\ gor[g].op = "Register" /\ gor[g].pc = "store"
    /\ IF ~registries[gor[g].reg].allocated
       THEN /\ gor' = [gor EXCEPT ![g].panicked = TRUE, ![g].pc = "unlock"]
            /\ UNCHANGED registries
       ELSE /\ registries' = [registries EXCEPT
                                ![gor[g].reg].factories = (gor[g].stage :> gor[g].f) @@ @]
            /\ gor' = [gor EXCEPT ![g].pc = "unlock"]
    /\ UNCHANGED mu

\* defer r.mu.Unlock(): runs on return and on panic.
Unlock(g) ==
    /\ gor[g].op = "Register" /\ gor[g].pc = "unlock"
    /\ mu' = [mu EXCEPT ![gor[g].reg].writer = 0]
    /\ gor' = [gor EXCEPT ![g].pc = "done"]
    /\ UNCHANGED registries

\* r.mu.RLock(): waits until no goroutine holds the write lock.
RLock(g) ==
    /\ gor[g].op = "Executor" /\ gor[g].pc = "lock"
    /\ mu[gor[g].reg].writer = 0
    /\ mu' = [mu EXCEPT ![gor[g].reg].readers = @ \cup {g}]
    /\ gor' = [gor EXCEPT ![g].pc = "lookup"]
    /\ UNCHANGED registries

\* f, ok := r.factories[stage]; if !ok { return nil, err }; return f(in), nil
ExecutorLookup(g) ==
    /\ gor[g].op = "Executor" /\ gor[g].pc = "lookup"
    /\ IF gor[g].stage \notin DOMAIN registries[gor[g].reg].factories
       THEN gor' = [gor EXCEPT ![g].err = "UnknownStage", ![g].pc = "unlock"]
       ELSE gor' = [gor EXCEPT
                      ![g].exec = Apply(registries[gor[g].reg].factories[gor[g].stage],
                                        gor[g].in),
                      ![g].pc = "unlock"]
    /\ UNCHANGED <<registries, mu>>

\* defer r.mu.RUnlock().
RUnlock(g) ==
    /\ gor[g].op = "Executor" /\ gor[g].pc = "unlock"
    /\ mu' = [mu EXCEPT ![gor[g].reg].readers = @ \ {g}]
    /\ gor' = [gor EXCEPT ![g].pc = "done"]
    /\ UNCHANGED registries

ConcInit ==
    /\ registries = [id \in RegistryIds |->
                        [allocated |-> (id = localRegistry), factories |-> EmptyMap]]
    /\ firstReg = [id \in RegistryIds |-> EmptyMap]
    /\ call = NoCall
    /\ ncalls = 0
    /\ ConfigIdle
    /\ CloudProviders = <<>>
    /\ nenable = 0
    /\ looked = NoLooked
    /\ Repositories = <<>>
    /\ repoMap = NoRepoMap
    /\ gor \in [Goroutines -> RegisterCalls \cup ExecutorCalls]
    /\ mu = [id \in RegistryIds |-> [writer |-> 0, readers |-> {}]]
    /\ WebIdle

ConcNext ==
    \/ /\ \E g \in Goroutines : Lock(g)
       /\ UNCHANGED <<firstReg, call, ncalls, cfgVars, lstVars, webVars>>
    \/ /\ \E g \in Goroutines : RegisterLookup(g)
       /\ UNCHANGED <<firstReg, call, ncalls, cfgVars, lstVars, webVars>>
    \/ /\ \E g \in Goroutines : RegisterStore(g)
       /\ UNCHANGED <<firstReg, call, ncalls, cfgVars, lstVars, webVars>>
    \/ /\ \E g \in Goroutines : Unlock(g)
       /\ UNCHANGED <<firstReg, call, ncalls, cfgVars, lstVars, webVars>>
    \/ /\ \E g \in Goroutines : RLock(g)
       /\ UNCHANGED <<firstReg, call, ncalls, cfgVars, lstVars, webVars>>
    \/ /\ \E g \in Goroutines : ExecutorLookup(g)
       /\ UNCHANGED <<firstReg, call, ncalls, cfgVars, lstVars, webVars>>
    \/ /\ \E g \in Goroutines : RUnlock(g)
       /\ UNCHANGED <<firstReg, call, ncalls, cfgVars, lstVars, webVars>>

ConcSpec == ConcInit /\ [][ConcNext]_vars

(***************************************************************************)
(* Web: the commands slice and the fetchCommand thunk, as the tests of     *)
(* commands.test.ts describe them (the slice itself is not among the       *)
(* sources).                                                               *)
(***************************************************************************)
CommandIds == 1..MaxCommands
CommandStatuses == {"COMMAND_NOT_HANDLED_YET", "COMMAND_SUCCEEDED", "COMMAND_FAILED"}
CommandTypes == {"SYNC_APPLICATION", "CANCEL_DEPLOYMENT"}
Commands ==
    [id : CommandIds, type : CommandTypes, status : CommandStatuses,
     deploymentId : {"deployment-1"}]

\* The index of the first occurrence of x in the sequence q, 0 if none.
RECURSIVE IndexOf(_, _, _)
IndexOf(q, x, i) ==
    IF i > Len(q) THEN 0 ELSE IF q[i] = x THEN i ELSE IndexOf(q, x, i + 1)

\* q without the elements equal to x.
RECURSIVE Without(_, _)
Without(q, x) ==
    IF q = <<>> THEN <<>>
    ELSE IF Head(q) = x THEN Without(Tail(q), x)
    ELSE <<Head(q)>> \o Without(Tail(q), x)

\* The entity adapter's upsertOne: the id is appended if new, the record set.
UpsertOne(st, cmd) ==
    [ids |-> IF IndexOf(st.ids, cmd.id, 1) = 0 THEN Append(st.ids, cmd.id) ELSE st.ids,
     entities |-> (cmd.id :> cmd) @@ st.entities]

\* The entity adapter's removeOne: the id and the record are dropped.
RemoveOne(st, id) ==
    [ids |-> Without(st.ids, id),
     entities |-> [k \in DOMAIN st.entities \ {id} |-> st.entities[k]]]

\* Mutant: every fetched command is kept, whatever its status.
CommandsReducer_KeepsAll(st, cmd) == {UpsertOne(st, cmd)}

\* The states the reducer of fetchCommand.fulfilled can leave: a command
\* not yet handled is added, a succeeded one is removed; the tests do not
\* say which of the two happens to a command that was handled otherwise.
CommandsReducer(st, cmd) ==
    CASE cmd.status = "COMMAND_NOT_HANDLED_YET" -> {UpsertOne(st, cmd)}
      [] cmd.status = "COMMAND_SUCCEEDED" -> {RemoveOne(st, cmd.id)}
      [] OTHER -> {UpsertOne(st, cmd), RemoveOne(st, cmd.id)}

\* The actions of the store.
PendingAction == [type |-> "fetchCommand.pending", to |-> <<>>]
FulfilledAction == [type |-> "fetchCommand.fulfilled", to |-> <<>>]
AddToastAction(cmd) == [type |-> "addToast", to |-> <<"/deployments/", cmd.deploymentId>>]

\* The thunk tells the user about a sync that has succeeded.
ToastDue(cmd) == cmd.type = "SYNC_APPLICATION" /\ cmd.status = "COMMAND_SUCCEEDED"

\* store.dispatch(fetchCommand(id)): pending is dispatched and the command is fetched.
FetchPending(cmd) ==
    /\ thunk.pc = "idle"
    /\ nfetch < MaxFetches
    /\ nfetch' = nfetch + 1
    /\ thunk' = [pc |-> "fetched", cmd |-> cmd]
    /\ dispatched' = <<PendingAction>>
    /\ UNCHANGED store

\* The thunk dispatches addToast with a link to the deployment of the command.
AddToast ==
    /\ thunk.pc = "fetched"
    /\ ToastDue(thunk.cmd)
    /\ thunk' = [thunk EXCEPT !.pc = "toasted"]
    /\ dispatched' = Append(dispatched, AddToastAction(thunk.cmd))
    /\ UNCHANGED <<store, nfetch>>

\* Mutant: the thunk resolves without waiting for the toast.
FetchFulfilled_BeforeToast ==
    /\ thunk.pc \in {"fetched", "toasted"}
    /\ thunk' = [thunk EXCEPT !.pc = "idle"]
    /\ dispatched' = Append(dispatched, FulfilledAction)
    /\ store' \in CommandsReducer(store, thunk.cmd)
    /\ UNCHANGED nfetch

\* The thunk resolves: fulfilled is dispatched and reduced by the commands slice.
FetchFulfilled ==
    /\ \/ thunk.pc = "toasted"
       \/ thunk.pc = "fetched" /\ ~ToastDue(thunk.cmd)
    /\ thunk' = [thunk EXCEPT !.pc = "idle"]
    /\ dispatched' = Append(dispatched, FulfilledAction)
    /\ store' \in CommandsReducer(store, thunk.cmd)
    /\ UNCHANGED nfetch

WebInit ==
    /\ RegistryInit
    /\ ConfigIdle
    /\ CloudProviders = <<>>
    /\ nenable = 0
    /\ looked = NoLooked
    /\ Repositories = <<>>
    /\ repoMap = NoRepoMap
    /\ ConcIdle
    /\ WebIdle

WebNext ==
    \/ /\ \E cmd \in Commands : FetchPending(cmd)
       /\ UNCHANGED <<regVars, cfgVars, lstVars, gor, mu>>
    \/ /\ AddToast
       /\ UNCHANGED <<regVars, cfgVars, lstVars, gor, mu>>
    \/ /\ FetchFulfilled
       /\ UNCHANGED <<regVars, cfgVars, lstVars, gor, mu>>

WebSpec == WebInit /\ [][WebNext]_vars

(***************************************************************************)
(* Properties of the executor registry.                                    *)
(***************************************************************************)
\* The call made by this step, if the step is a call on a registry.
IsCall(op) == ncalls' = ncalls + 1 /\ call'.op = op

\* C1: once Register(k, f1) has returned nil on a registry, every later
\* Register(k, f2) on that registry returns a non-nil error.
C1_RegisterTwiceFails ==
    [][(IsCall("Register") /\ call'.stage \in DOMAIN firstReg[call'.reg])
        => (call'.err # "nil" /\ ~call'.panicked)]_vars

\* C1 witness: a Register of a kind whose first Register had succeeded has been refused.
C1_Witness ==
    /\ call.op = "Register"
    /\ call.stage \in DOMAIN firstReg[call.reg]
    /\ call.err = "AlreadyRegistered"
    /\ call.f # firstReg[call.reg][call.stage]

\* C2: Executor(k, in) on a registry where nothing was bound to k returns a
\* nil executor and a non-nil error, and invokes no factory.
C2_ExecutorUnboundFails ==
    (call.op = "Executor" /\ call.stage \notin DOMAIN firstReg[call.reg])
        => (call.exec = NilExecutor /\ call.err # "nil" /\ call.invoked = NoFactory)

\* C2 witness: an unbound kind was looked up on a registry that has another kind bound.
C2_Witness ==
    /\ call.op = "Executor"
    /\ call.stage \notin DOMAIN firstReg[call.reg]
    /\ DOMAIN firstReg[call.reg] # {}
    /\ call.err = "UnknownStage"

\* C3: after Register(k, f) has succeeded, Executor(k, in) returns exactly
\* f(in) and a nil error.
C3_ExecutorReturnsBoundFactory ==
    (call.op = "Executor" /\ call.stage \in DOMAIN firstReg[call.reg])
        => (call.exec = Apply(firstReg[call.reg][call.stage], call.in) /\ call.err = "nil")

\* C3 witness: a bound kind was looked up while another kind is bound to a different factory.
C3_Witness ==
    /\ call.op = "Executor"
    /\ call.stage \in DOMAIN firstReg[call.reg]
    /\ call.err = "nil"
    /\ \E k \in DOMAIN firstReg[call.reg] :
          firstReg[call.reg][k] # firstReg[call.reg][call.stage]

\* Every kind whose Register has succeeded is bound to that first factory.
WriteOnceInv ==
    \A id \in RegistryIds : \A k \in DOMAIN firstReg[id] :
        /\ k \in DOMAIN registries[id].factories
        /\ registries[id].factories[k] = firstReg[id][k]

\* A step keeps every binding, and binds at most the kind a successful Register names.
WriteOnceStep ==
    \A id \in RegistryIds :
        /\ \A k \in DOMAIN registries[id].factories :
              /\ k \in DOMAIN registries'[id].factories
              /\ registries'[id].factories[k] = registries[id].factories[k]
        /\ \A k \in DOMAIN registries'[id].factories \ DOMAIN registries[id].factories :
              /\ IsCall("Register") /\ call'.err = "nil" /\ ~call'.panicked
              /\ call'.reg = id /\ call'.stage = k
              /\ registries'[id].factories[k] = call'.f

\* C4: the registry is write-once: a bound kind stays bound to the factory
\* of its first successful Register, no call changes or removes another
\* binding, and the set of bound kinds only grows.
C4_WriteOnce == []WriteOnceInv /\ [][WriteOnceStep]_vars

\* C4 witness: on a registry with two kinds bound, a Register of a bound
\* kind with another factory was refused and the binding is the old one.
C4_Witness ==
    /\ call.op = "Register"
    /\ call.err = "AlreadyRegistered"
    /\ Cardinality(DOMAIN registries[call.reg].factories) = 2
    /\ registries[call.reg].factories[call.stage] # call.f

\* C5 (as claimed): on DefaultRegistry() the first Register(k, f) of an
\* unbound kind completes normally, returns nil and binds k to f.
C5_DefaultRegistryRegisterBinds ==
    [][(IsCall("Register") /\ call'.reg = DefaultRegistry
            /\ call'.stage \notin DOMAIN registries[DefaultRegistry].factories)
        => (/\ ~call'.panicked
            /\ call'.err = "nil"
            /\ call'.stage \in DOMAIN registries'[DefaultRegistry].factories
            /\ registries'[DefaultRegistry].factories[call'.stage] = call'.f)]_vars
(***************************************************************************)
(* Properties of the piped configuration.                                  *)
(***************************************************************************)
\* The step is a call of PipedSpec.Validate.
IsValidate == nvalidate' = nvalidate + 1

\* C6 (as claimed): after Validate returns nil on a spec whose SyncInterval
\* is the zero value, SyncInterval is one minute; a positive SyncInterval
\* is left unchanged.
C6_SyncIntervalDefault ==
    [][(IsValidate /\ result'.err = "nil" /\ ~result'.panicked)
        => (/\ spec.SyncInterval = 0 => spec'.SyncInterval = Minute
            /\ spec.SyncInterval > 0 => spec'.SyncInterval = spec.SyncInterval)]_vars

\* C7: an image provider decoded from a document without pullInterval, or
\* with a zero one, has a PullInterval of five minutes; a nonzero
\* pullInterval is kept as given.
C7_PullIntervalDefault ==
    (decoded.section = "imageProvider" /\ ~decoded.data.malformed)
        => IF "pullInterval" \in decoded.data.keys /\ decoded.data.pullInterval # 0
           THEN decoded.p.PullInterval = decoded.data.pullInterval
           ELSE decoded.p.PullInterval = 5 * Minute

\* C7 witness: an image provider of a supported type was decoded from a
\* document that has no pullInterval.
C7_Witness ==
    /\ decoded.section = "imageProvider"
    /\ decoded.err = "nil"
    /\ "pullInterval" \notin decoded.data.keys
    /\ decoded.p.PullInterval = 300

\* The types a section supports: those its struct has a config variant for.
SupportedTypes(section) ==
    CASE section = "cloudProvider" -> CloudProviderVariants
      [] section = "analysisProvider" -> AnalysisProviderVariants
      [] section = "imageProvider" -> ImageProviderVariants
      [] section = "sealedSecretManagement" -> SealedSecretVariants
      [] OTHER -> {}

\* The type a document gives ("" when the key is missing).
GivenType(data) == IF "type" \in data.keys THEN data.type ELSE ""

\* The config of a document is absent or well-formed.
ConfigAcceptable(data) ==
    "config" \notin data.keys \/ data.config.kind \in {"null", "object"}

\* C8: UnmarshalJSON of a {type, config} section returns an error when the
\* type is not one the section supports (an empty or missing type
\* included), and nil for a supported type with an absent or well-formed config.
C8_UnknownTypeRejected ==
    (decoded.section # "none" /\ ~decoded.data.malformed)
        => (/\ GivenType(decoded.data) \notin SupportedTypes(decoded.section)
                => decoded.err # "nil"
            /\ (GivenType(decoded.data) \in SupportedTypes(decoded.section)
                    /\ ConfigAcceptable(decoded.data))
                => decoded.err = "nil")

\* C8 witness: an analysis provider document without a type key was rejected.
C8_Witness ==
    /\ decoded.section = "analysisProvider"
    /\ ~decoded.data.malformed
    /\ "type" \notin decoded.data.keys
    /\ "config" \in decoded.data.keys
    /\ decoded.err = "unsupported analysis provider type"

\* The five required fields of a PipedSpec are set.
RequiredFieldsSet(s) ==
    /\ s.ProjectID # ""
    /\ s.PipedID # ""
    /\ s.PipedKeyFile # ""
    /\ s.APIAddress # ""
    /\ s.WebAddress # ""

\* A SealedSecretManagement of a supported type with that type's required fields set.
SealedSecretValid(m) ==
    \/ /\ m.Type = "SEALING_KEY"
       /\ ~m.SealingKeyConfig.nil
       /\ \A k \in SealingKeyFields : m.SealingKeyConfig.v[k] # ""
    \/ /\ m.Type = "GCP_KMS"
       /\ ~m.GCPKMSConfig.nil
       /\ \A k \in GCPKMSFields : m.GCPKMSConfig.v[k] # ""

\* C9: Validate returns nil exactly when the five required fields are set
\* and SealedSecretManagement is nil or valid; otherwise it returns an
\* error, and when a required field is empty SyncInterval is unchanged.
C9_ValidateIff ==
    [][IsValidate
        => (/\ ~result'.panicked
            /\ result'.err = "nil"
                <=> (/\ RequiredFieldsSet(spec)
                     /\ \/ spec.SealedSecretManagement.nil
                        \/ SealedSecretValid(spec.SealedSecretManagement.v))
            /\ ~RequiredFieldsSet(spec)
                => (result'.err # "nil" /\ spec'.SyncInterval = spec.SyncInterval))]_vars

\* C9 witness: Validate refused a spec with the five required fields set
\* because its sealed secret management lacks a required field.
C9_Witness ==
    /\ result.op = "PipedSpec.Validate"
    /\ RequiredFieldsSet(spec)
    /\ ~spec.SealedSecretManagement.nil
    /\ result.err = "encryptServiceAccountFile must be set"

\* The document sets the required fields of the sealed secret type it names
\* (no config struct, hence no required field, exists for AWS_KMS).
SealedSecretDocumentComplete(data) ==
    /\ ~data.malformed
    /\ "type" \in data.keys
    /\ data.type \in AvailableSealedSecretTypes
    /\ "config" \in data.keys
    /\ data.config.kind = "object"
    /\ data.type = "SEALING_KEY"
        => (DOMAIN data.config.obj = SealingKeyFields
            /\ \A k \in SealingKeyFields : data.config.obj[k] # "")
    /\ data.type = "GCP_KMS"
        => (DOMAIN data.config.obj = GCPKMSFields
            /\ \A k \in GCPKMSFields : data.config.obj[k] # "")

\* C10 (as claimed): a sealedSecretManagement section of type SEALING_KEY,
\* GCP_KMS or AWS_KMS with its required fields set is decoded without error
\* and passes SealedSecretManagement.Validate.
C10_AvailableTypesAccepted ==
    (decoded.section = "sealedSecretManagement" /\ SealedSecretDocumentComplete(decoded.data))
        => (/\ decoded.err = "nil"
            /\ result.op = "SealedSecretManagement.Validate"
                => (result.err = "nil" /\ ~result.panicked))
\* The step is a call of EnableDefaultKubernetesCloudProvider.
IsEnable == nenable' = nenable + 1

\* A provider named like the default one is in the list.
HasDefaultName(cps) ==
    \E i \in 1..Len(cps) : cps[i].Name = "kubernetes-default"

\* The call keeps the providers it found, in their order, appends at most
\* one entry, and a further call changes nothing.
EnableKeepsList ==
    /\ Len(CloudProviders') \in {Len(CloudProviders), Len(CloudProviders) + 1}
    /\ SubSeq(CloudProviders', 1, Len(CloudProviders)) = CloudProviders
    /\ nenable >= 1 => CloudProviders' = CloudProviders

\* C11 (as claimed): after EnableDefaultKubernetesCloudProvider,
\* HasCloudProvider("kubernetes-default", KUBERNETES) is true, the providers
\* that existed are unchanged and in order, and further calls change nothing.
C11_EnableDefaultAsClaimed ==
    [][IsEnable
        => (/\ PipedSpec_HasCloudProvider(CloudProviders', "kubernetes-default", "KUBERNETES")
            /\ EnableKeepsList)]_vars

\* C11 (amended): after the call a provider named kubernetes-default is in
\* the list, and HasCloudProvider("kubernetes-default", KUBERNETES) is true
\* exactly when before the call no provider had that name or one of that
\* name had the type KUBERNETES; the providers that existed are unchanged
\* and in order, at most one entry is appended, further calls change nothing.
C11_EnableDefault ==
    [][IsEnable
        => (/\ HasDefaultName(CloudProviders')
            /\ PipedSpec_HasCloudProvider(CloudProviders', "kubernetes-default", "KUBERNETES")
                <=> (\/ ~HasDefaultName(CloudProviders)
                     \/ PipedSpec_HasCloudProvider(CloudProviders, "kubernetes-default",
                                                   "KUBERNETES"))
            /\ EnableKeepsList)]_vars

\* C11 witness: two calls were made on a list that did not name the default
\* provider; the list has it once, at the end, and the lookup finds it.
C11_Witness ==
    /\ nenable = 2
    /\ Len(CloudProviders) >= 2
    /\ CloudProviders[Len(CloudProviders)] = DefaultKubernetesCloudProvider
    /\ \A i \in 1..(Len(CloudProviders) - 1) : CloudProviders[i].Name # "kubernetes-default"
    /\ looked.op = "HasCloudProvider" /\ looked.key = "kubernetes-default"
    /\ looked.type = "KUBERNETES" /\ looked.found
\* Both GetRepository and GetRepositoryMap have been called on the spec.
BothLookedUp == looked.op = "GetRepository" /\ repoMap.called

\* The positions of the list that hold a repository with the given id.
PositionsOf(id) == {i \in 1..Len(Repositories) : Repositories[i].RepoID = id}

\* C16 (as claimed): GetRepository(id) reports found exactly when id is a
\* key of GetRepositoryMap() and then returns GetRepositoryMap()[id]; the
\* map has one entry per configured repository.
C16_RepositoryLookupsAgreeAsClaimed ==
    /\ BothLookedUp
        => (/\ looked.found <=> looked.key \in DOMAIN repoMap.m
            /\ looked.found => looked.repo = repoMap.m[looked.key])
    /\ repoMap.called => Cardinality(DOMAIN repoMap.m) = Len(Repositories)

\* C16 (amended): GetRepository(id) reports found exactly when id is a key
\* of GetRepositoryMap(); it returns the first repository with that id and
\* the map holds the last one, so they are the same repository when one
\* repository has that id; the map has one entry per distinct RepoID.
C16_RepositoryLookupsAgree ==
    /\ BothLookedUp
        => (/\ looked.found <=> looked.key \in DOMAIN repoMap.m
            /\ looked.found
                => (/\ \E i \in PositionsOf(looked.key) :
                          /\ \A j \in PositionsOf(looked.key) : i <= j
                          /\ looked.repo = Repositories[i]
                    /\ \E i \in PositionsOf(looked.key) :
                          /\ \A j \in PositionsOf(looked.key) : j <= i
                          /\ repoMap.m[looked.key] = Repositories[i]
                    /\ Cardinality(PositionsOf(looked.key)) = 1
                          => looked.repo = repoMap.m[looked.key]))
    /\ repoMap.called
        => DOMAIN repoMap.m = {Repositories[i].RepoID : i \in 1..Len(Repositories)}

\* C16 witness: both lookups were made on a list of two repositories with
\* different ids, and the repository found is the one the map holds.
C16_Witness ==
    /\ BothLookedUp
    /\ Len(Repositories) = 2
    /\ Cardinality(DOMAIN repoMap.m) = 2
    /\ looked.found
    /\ looked.repo = repoMap.m[looked.key]
\* The type-specific config pointers of the struct of a section.
ConfigPointers(section) ==
    CASE section = "cloudProvider" ->
            {"KubernetesConfig", "TerraformConfig", "CloudRunConfig", "LambdaConfig"}
      [] section = "analysisProvider" ->
            {"PrometheusConfig", "DatadogConfig", "StackdriverConfig"}
      [] section = "imageProvider" -> {"DockerhubConfig", "GCRConfig", "ECRConfig"}
      [] section = "sealedSecretManagement" -> {"SealingKeyConfig", "GCPKMSConfig"}
      [] OTHER -> {}

\* The config pointer a Type selects.
SelectedPointer(type) ==
    CASE type = "KUBERNETES" -> "KubernetesConfig"
      [] type = "TERRAFORM" -> "TerraformConfig"
      [] type = "CLOUDRUN" -> "CloudRunConfig"
      [] type = "LAMBDA" -> "LambdaConfig"
      [] type = "PROMETHEUS" -> "PrometheusConfig"
      [] type = "DATADOG" -> "DatadogConfig"
      [] type = "STACKDRIVER" -> "StackdriverConfig"
      [] type = "DOCKERHUB" -> "DockerhubConfig"
      [] type = "GCR" -> "GCRConfig"
      [] type = "ECR" -> "ECRConfig"
      [] type = "SEALING_KEY" -> "SealingKeyConfig"
      [] type = "GCP_KMS" -> "GCPKMSConfig"
      [] OTHER -> "none"

\* C15: after a successful UnmarshalJSON into a zero-valued struct of one
\* of the four sections, exactly one type-specific config pointer is
\* non-nil, the one its Type selects (also without a config key), and all
\* the others are nil.
C15_TaggedUnionWellFormed ==
    (decoded.section # "none" /\ decoded.err = "nil")
        => (/\ decoded.p.Type = GivenType(decoded.data)
            /\ {f \in ConfigPointers(decoded.section) : ~decoded.p[f].nil}
                  = {SelectedPointer(decoded.p.Type)})

\* C15 witness: a LAMBDA cloud provider without a config key was decoded.
C15_Witness ==
    /\ decoded.section = "cloudProvider"
    /\ decoded.err = "nil"
    /\ "config" \notin decoded.data.keys
    /\ decoded.p.Type = "LAMBDA"
    /\ ~decoded.p.LambdaConfig.nil
\* The goroutines that call Register(k, ...) on the registry id.
RegisterersOf(id, k) ==
    {g \in Goroutines : gor[g].op = "Register" /\ gor[g].reg = id /\ gor[g].stage = k}

\* The Register call of goroutine g has returned nil.
ReturnedNil(g) == gor[g].pc = "done" /\ gor[g].err = "nil" /\ ~gor[g].panicked
\* The Register call of goroutine g has returned an error.
ReturnedError(g) == gor[g].pc = "done" /\ gor[g].err # "nil" /\ ~gor[g].panicked
\* The Register call of goroutine g has stored its factory.
HasStored(g) ==
    gor[g].pc \in {"unlock", "done"} /\ gor[g].err = "nil" /\ ~gor[g].panicked

\* C14 (as claimed): when the concurrent Register calls of an unbound kind
\* k on one registry have returned, exactly one returned nil, the others
\* returned an error and k is bound to the factory of the one that returned
\* nil; a concurrent Executor(k, in) has failed as unbound or returned the
\* result of that winning factory.
C14_ConcurrentRegister ==
    \A id \in RegistryIds : \A k \in Stages :
        /\ (RegisterersOf(id, k) # {} /\ \A g \in RegisterersOf(id, k) : gor[g].pc = "done")
            => \E w \in RegisterersOf(id, k) :
                  /\ ReturnedNil(w)
                  /\ \A g \in RegisterersOf(id, k) \ {w} : ReturnedError(g)
                  /\ k \in DOMAIN registries[id].factories
                  /\ registries[id].factories[k] = gor[w].f
        /\ \A e \in Goroutines :
              (gor[e].op = "Executor" /\ gor[e].reg = id /\ gor[e].stage = k
                    /\ gor[e].pc = "done")
                => \/ gor[e].err # "nil" /\ gor[e].exec = NilExecutor
                   \/ /\ gor[e].err = "nil"
                      /\ \E w \in RegisterersOf(id, k) :
                            /\ HasStored(w)
                            /\ \A g \in RegisterersOf(id, k) \ {w} : ~HasStored(g)
                            /\ gor[e].exec = Apply(gor[w].f, gor[e].in)
\* ids and entities name the same commands, each once, and none of them has succeeded.
CommandsStoreInv ==
    /\ {store.ids[i] : i \in 1..Len(store.ids)} = DOMAIN store.entities
    /\ \A i, j \in 1..Len(store.ids) : store.ids[i] = store.ids[j] => i = j
    /\ \A id \in DOMAIN store.entities :
          /\ store.entities[id].id = id
          /\ store.entities[id].status # "COMMAND_SUCCEEDED"

\* Reducing fulfilled adds a command not yet handled and removes a succeeded one.
CommandsReduceStep ==
    (thunk.pc # "idle" /\ thunk'.pc = "idle")
        => (/\ thunk.cmd.status = "COMMAND_NOT_HANDLED_YET"
                => (/\ thunk.cmd.id \in DOMAIN store'.entities
                    /\ store'.entities[thunk.cmd.id] = thunk.cmd
                    /\ \E i \in 1..Len(store'.ids) : store'.ids[i] = thunk.cmd.id)
            /\ thunk.cmd.status = "COMMAND_SUCCEEDED"
                => (/\ thunk.cmd.id \notin DOMAIN store'.entities
                    /\ \A i \in 1..Len(store'.ids) : store'.ids[i] # thunk.cmd.id))

\* C12: reducing fetchCommand.fulfilled adds a command that is not yet
\* handled and removes the entry of a command that has succeeded; after any
\* sequence of fulfilled fetches ids and entities name the same commands
\* and none of them has the status COMMAND_SUCCEEDED.
C12_CommandsStore == []CommandsStoreInv /\ [][CommandsReduceStep]_vars

\* C12 witness: a command that was in the store has been fetched as
\* succeeded and is gone, while another command is still kept.
C12_Witness ==
    /\ nfetch >= 3
    /\ thunk.pc = "idle"
    /\ thunk.cmd.status = "COMMAND_SUCCEEDED"
    /\ Len(store.ids) = 1
    /\ store.ids[1] # thunk.cmd.id
    /\ store.entities[store.ids[1]].status = "COMMAND_NOT_HANDLED_YET"

\* The actions a fetch of a succeeded SYNC_APPLICATION command dispatches.
ExpectedActions(cmd) == <<PendingAction, AddToastAction(cmd), FulfilledAction>>

\* C13: a fetchCommand of a SYNC_APPLICATION command that has succeeded
\* dispatches pending, then addToast with the link to the deployment of
\* the command, then fulfilled: the toast once, and never after fulfilled.
C13_ToastBeforeFulfilled ==
    (nfetch > 0 /\ ToastDue(thunk.cmd))
        => (/\ Len(dispatched) <= 3
            /\ dispatched = SubSeq(ExpectedActions(thunk.cmd), 1, Len(dispatched))
            /\ thunk.pc = "idle" => dispatched = ExpectedActions(thunk.cmd))

\* C13 witness: the fetch of a succeeded SYNC_APPLICATION command is over
\* and its three actions were dispatched.
C13_Witness ==
    /\ nfetch > 0
    /\ ToastDue(thunk.cmd)
    /\ thunk.pc = "idle"
    /\ Len(dispatched) = 3
    /\ dispatched[2].type = "addToast"
    /\ dispatched[2].to = <<"/deployments/", "deployment-1">>
====
